---- MODULE Spec2Model ----
(***************************************************************************)
(* DNS wire-format records and EDNS options.                               *)
(*                                                                         *)
(*   src/src/bits/record.rs              Record, RecordHeader              *)
(*   src/domain-core/src/opt/rfc7314.rs  Expire                            *)
(*   src/domain-core/src/opt/rfc7828.rs  TcpKeepalive                      *)
(*                                                                         *)
(* A buffer is a string of octets (0..255), kept run-length encoded: a     *)
(* sequence of runs <<v, e>>, octets of value v up to the e-th, no two     *)
(* neighbours of the same value, so that a string has one representation.  *)
(* A cursor position is the number of octets already consumed.  The        *)
(* cursor, the builder, the name codec, the TTL type and the payload types *)
(* are collaborators of the record code and are modelled after their       *)
(* description in spec.md.                                                 *)
(***************************************************************************)
EXTENDS Integers, Sequences, FiniteSets, TLC

VARIABLES
    buf,    \* the octets being parsed
    pos,    \* the cursor position in buf
    hdr,    \* the header the caller holds for parse_into_record
    res,    \* what the last operation returned
    out,    \* the octets composed so far
    comp,   \* the Compressor's table: name suffix -> offset in out
    cap,    \* the Compressor's capacity
    recs,   \* the records composed so far, each with where and how
    ptrs,   \* the compression pointers written so far
    dec,    \* the Base 16 Decoder
    text    \* the characters displayed, or given to the Decoder so far

vars == <<buf, pos, hdr, res, out, comp, cap, recs, ptrs, dec, text>>

---------------------------------------------------------------------------
(* Program constants *)

\* ::std::u16::MAX, the largest RDLENGTH
U16Max == 65535

\* the largest offset a compression pointer can hold (14 bits)
PtrMax == 16383

\* the widest upper half of a TTL RFC 2181 allows (a TTL is at most
\* 2^31 - 1); an encoding with the top bit set is disallowed
TtlMaxHigh == 32767

\* a name's wire form is at most 255 octets
NameMax == 255

\* Rtype codes: NS (a name payload), TXT (raw octets), and a private-use
\* code no payload type implements
RtypeNs == 2
RtypeTxt == 16
RtypePrivate == 65280

\* Class::In
ClassIn == 1

---------------------------------------------------------------------------
(* Bounds of the model *)

\* the largest RDLENGTH the parsed buffers declare
MaxRdlen == 2

\* how many records are composed into one buffer
MaxRecs == 2

\* the small capacity a Compressor is given
CapSmall == 22

\* the capacity of a Compressor that holds a whole oversized record
CapLarge == 65600

\* the octet that fills raw payloads
Fill == 7

\* how far a payload type moves the cursor before it declines or fails
MaxEat == 2

\* the longest raw payload composed, the oversized ones aside
MaxRaw == 1

\* the longest option data region parsed
MaxRegion == 4

\* the longest string pushed or decoded
MaxText == 5

\* the longest octet sequence displayed
MaxOctets == 2

\* the octets a small target builder takes
RoomSmall == 1

---------------------------------------------------------------------------
(* Octets and big-endian integers *)

Min(a, b) == IF a < b THEN a ELSE b

U16Bytes(v) == << (v \div 256) % 256, v % 256 >>

\* A 32-bit value is the pair of its upper and lower 16 bits.
U32(n) == << n \div 65536, n % 65536 >>

U32Bytes(v) == U16Bytes(v[1]) \o U16Bytes(v[2])

\* `x as u16`
AsU16(x) == x % (U16Max + 1)

---------------------------------------------------------------------------
(* Octet strings *)

\* F of x, of x and y, of x, y and z, each evaluated once
With1(F(_), x) == CHOOSE v \in { F(a) : a \in {x} } : TRUE
With2(F(_, _), x, y) == CHOOSE v \in { F(a, c) : a \in {x}, c \in {y} } : TRUE
With3(F(_, _, _), x, y, z) ==
    CHOOSE v \in { F(a, c, d) : a \in {x}, c \in {y}, d \in {z} } : TRUE

\* the number of octets
OLen(b) == With1(LAMBDA s : IF s = <<>> THEN 0 ELSE s[Len(s)][2], b)

\* the number of octets before the k-th run
Before(b, k) == IF k = 1 THEN 0 ELSE b[k - 1][2]

\* the i-th octet, i in 1..OLen(b)
At(b, i) ==
    With2(LAMBDA s, j :
            s[CHOOSE k \in 1..Len(s) : Before(s, k) < j /\ j <= s[k][2]][1],
          b, i)

\* the runs of b, n octets further on
Shift(b, n) ==
    With2(LAMBDA s, j : [k \in 1..Len(s) |-> <<s[k][1], s[k][2] + j>>], b, n)

\* a followed by b
Cat(a, b) ==
    With2(LAMBDA s, t :
            IF s = <<>> THEN t
            ELSE IF t = <<>> THEN s
            ELSE IF s[Len(s)][1] = t[1][1]
                THEN SubSeq(s, 1, Len(s) - 1) \o Shift(t, OLen(s))
                ELSE s \o Shift(t, OLen(s)),
          a, b)

\* the first n octets (all of them when there are fewer)
Take(b, n) ==
    With2(LAMBDA s, j :
            With1(LAMBDA m : [k \in 1..m |-> <<s[k][1], Min(s[k][2], j)>>],
                  Cardinality({ k \in 1..Len(s) : Before(s, k) < j })),
          b, n)

\* what follows the first n octets
Drop(b, n) ==
    With2(LAMBDA s, j :
            IF j <= 0 THEN s
            ELSE With1(LAMBDA m : [k \in 1..(Len(s) - m) |->
                                     <<s[k + m][1], s[k + m][2] - j>>],
                       Cardinality({ k \in 1..Len(s) : s[k][2] <= j })),
          b, n)

\* the octets i..j
Sub(b, i, j) == Take(Drop(b, i - 1), j - i + 1)

\* the ends of the runs of a sequence of octets
Ends(s) == { k \in 1..Len(s) : k = Len(s) \/ s[k] # s[k + 1] }

\* the string of a sequence of octets
Oct(s) ==
    With2(LAMBDA t, ends :
            [j \in 1..Cardinality(ends) |->
                With1(LAMBDA e : <<t[e], e>>,
                      CHOOSE e \in ends :
                        Cardinality({ x \in ends : x <= e }) = j)],
          s, Ends(s))

\* the sequence of octets i..j, for a label
Octets(b, i, j) ==
    With3(LAMBDA s, m, n : [k \in 1..(n - m + 1) |-> At(s, m + k - 1)], b, i, j)

\* a raw payload of n octets
Filled(n) == IF n = 0 THEN <<>> ELSE << <<Fill, n>> >>

---------------------------------------------------------------------------
(* The cursor (Parser): bounds-checked, advances or fails *)

Remaining(b, p) == OLen(b) - p

ParseU16(b, p) ==
    With2(LAMBDA s, at :
            IF Remaining(s, at) < 2
                THEN [ok |-> FALSE, val |-> 0, pos |-> at]
                ELSE [ok |-> TRUE,
                      val |-> At(s, at + 1) * 256 + At(s, at + 2),
                      pos |-> at + 2],
          b, p)

ParseU32(b, p) ==
    With2(LAMBDA s, at :
            IF Remaining(s, at) < 4
                THEN [ok |-> FALSE, val |-> U32(0), pos |-> at]
                ELSE [ok |-> TRUE,
                      val |-> << At(s, at + 1) * 256 + At(s, at + 2),
                                 At(s, at + 3) * 256 + At(s, at + 4) >>,
                      pos |-> at + 4],
          b, p)

Advance(b, p, n) ==
    With3(LAMBDA s, at, k :
            IF Remaining(s, at) < k
                THEN [ok |-> FALSE, pos |-> at]
                ELSE [ok |-> TRUE, pos |-> at + k],
          b, p, n)

Seek(b, p, to) ==
    IF to > OLen(b)
        THEN [ok |-> FALSE, pos |-> p]
        ELSE [ok |-> TRUE, pos |-> to]

---------------------------------------------------------------------------
(* The name codec: a name is a sequence of labels, a label a sequence of   *)
(* octets.  On the wire a label is its length and its octets, the root is  *)
(* a zero octet, and a pointer is two octets, 11 and a 14-bit offset.      *)

RECURSIVE LabelsWire(_)
LabelsWire(labels) ==
    IF labels = <<>> THEN <<>>
    ELSE <<Len(Head(labels))>> \o Head(labels) \o LabelsWire(Tail(labels))

\* N::compose: the name in full
NameWire(name) == Oct(LabelsWire(name) \o <<0>>)

\* N::compose_len
NameComposeLen(name) == OLen(NameWire(name))

NameFail(p) == [ok |-> FALSE, name |-> <<>>, pos |-> p]

\* The labels from `at` on, following pointers; pos is where the name ends
\* in the stream it started in.  A pointer has to point backwards.
RECURSIVE NameFrom(_, _, _, _)
NameFrom(b, at, acc, used) ==
    IF at >= OLen(b) THEN NameFail(at)
    ELSE With1(LAMBDA l :
        IF l = 0 THEN [ok |-> TRUE, name |-> acc, pos |-> at + 1]
        ELSE IF l < 64 THEN
            IF at + 1 + l > OLen(b) \/ used + l + 2 > NameMax
                THEN NameFail(at)
                ELSE With3(LAMBDA next, labels, n :
                               NameFrom(b, next, labels, n),
                           at + 1 + l,
                           Append(acc, Octets(b, at + 2, at + 1 + l)),
                           used + l + 1)
        ELSE IF l >= 192 THEN
            IF at + 2 > OLen(b) THEN NameFail(at)
            ELSE With1(LAMBDA to :
                IF to >= at THEN NameFail(at)
                ELSE With1(LAMBDA r :
                    IF r.ok THEN [r EXCEPT !.pos = at + 2] ELSE NameFail(at),
                  NameFrom(b, to, acc, used)),
              (l - 192) * 256 + At(b, at + 2))
        ELSE NameFail(at),
      At(b, at + 1))

\* N::parse (ParsedDname): the name at the cursor, decompressed
ParseName(b, p) == NameFrom(b, p, <<>>, 0)

---------------------------------------------------------------------------
(* The TTL: four octets, big-endian; an encoding with the top bit set is   *)
(* refused                                                                 *)

TtlParse(b, p) ==
    With1(LAMBDA v :
        IF ~v.ok
            THEN [ok |-> FALSE, err |-> "ShortBuf", val |-> U32(0), pos |-> p]
        ELSE IF v.val[1] > TtlMaxHigh
            THEN [ok |-> FALSE, err |-> "Ttl", val |-> U32(0), pos |-> v.pos]
            ELSE [ok |-> TRUE, err |-> "", val |-> v.val, pos |-> v.pos],
      ParseU32(b, p))

---------------------------------------------------------------------------
(* Record data (the RecordData trait).  A value is                         *)
(*   [rtype, bytes, name]: for NS the payload is the name, for every other *)
(*   type it is the octet string.                                          *)

NsData(name) == [rtype |-> RtypeNs, bytes |-> <<>>, name |-> name]
RawData(rtype, bytes) == [rtype |-> rtype, bytes |-> bytes, name |-> <<>>]
NoData == RawData(0, <<>>)

\* D::compose
DataWire(d) == IF d.rtype = RtypeNs THEN NameWire(d.name) ELSE d.bytes

\* D::compose_len
DataComposeLen(d) == OLen(DataWire(d))

\* What a payload type does with one record: it accepts it ("some"), it
\* declines the type ("none") or it fails ("err"), the last two after
\* having moved the cursor by `eat` octets.
Behaviours(maxEat) ==
    { [kind |-> "some", eat |-> 0] }
    \cup { [kind |-> k, eat |-> e] : k \in {"none", "err"}, e \in 0..maxEat }

Lawful == [kind |-> "some", eat |-> 0]

\* D::parse(rtype, rdlen, parser)
DataParse(rtype, rdlen, b, p, beh) ==
    IF beh.kind # "some"
        THEN [kind |-> beh.kind, data |-> NoData,
              pos |-> p + Min(beh.eat, Remaining(b, p))]
    ELSE IF rtype = RtypeNs THEN
        With1(LAMBDA n :
            IF n.ok /\ n.pos - p = rdlen
                THEN [kind |-> "some", data |-> NsData(n.name), pos |-> n.pos]
                ELSE [kind |-> "err", data |-> NoData, pos |-> p],
          ParseName(b, p))
    ELSE IF Remaining(b, p) < rdlen
        THEN [kind |-> "err", data |-> NoData, pos |-> p]
        ELSE [kind |-> "some",
              data |-> RawData(rtype, Sub(b, p + 1, p + rdlen)),
              pos |-> p + rdlen]

---------------------------------------------------------------------------
(* Errors and their conversions *)

\* a conversion that files the cursor's ShortBuf under the name errors
HeaderErrFromShortBufAsName == "Name"

\* impl From<ShortBuf> for RecordHeaderParseError
HeaderErrFromShortBuf == "ShortBuf"

\* impl From<ParseTtlError> for RecordHeaderParseError
HeaderErrFromTtl == "Ttl"

\* impl From<RecordHeaderParseError> for RecordParseError
RecordErrFromHeaderErr(e) ==
    CASE e = "Name" -> "Name"
      [] e = "Ttl" -> "Ttl"
      [] e = "ShortBuf" -> "ShortBuf"

\* impl From<ShortBuf> for RecordParseError
RecordErrFromShortBuf == "ShortBuf"

---------------------------------------------------------------------------
(* RecordHeader *)

\* RecordHeader::new
NewHeader(name, rtype, class, ttl, rdlen) ==
    [name |-> name, rtype |-> rtype, class |-> class, ttl |-> ttl,
     rdlen |-> rdlen]

NoHeader == NewHeader(<<>>, 0, 0, U32(0), 0)

HeaderErr(e, p) == [ok |-> FALSE, err |-> e, val |-> NoHeader, pos |-> p]

\* <RecordHeader as Parseable>::parse: the name, then TYPE, CLASS, TTL and
\* RDLENGTH; the first field that fails ends the parse where the cursor is.
RecordHeaderParse(b, p) ==
    With1(LAMBDA n :
        IF ~n.ok THEN HeaderErr("Name", n.pos)
        ELSE With1(LAMBDA t :
            IF ~t.ok THEN HeaderErr(HeaderErrFromShortBuf, t.pos)
            ELSE With1(LAMBDA c :
                IF ~c.ok THEN HeaderErr(HeaderErrFromShortBuf, c.pos)
                ELSE With1(LAMBDA l :
                    IF ~l.ok THEN
                        HeaderErr(IF l.err = "Ttl" THEN HeaderErrFromTtl
                                  ELSE HeaderErrFromShortBuf, l.pos)
                    ELSE With1(LAMBDA r :
                        IF ~r.ok THEN HeaderErr(HeaderErrFromShortBuf, r.pos)
                        ELSE [ok |-> TRUE, err |-> "",
                              val |-> NewHeader(n.name, t.val, c.val,
                                                l.val, r.val),
                              pos |-> r.pos],
                      ParseU16(b, l.pos)),
                  TtlParse(b, c.pos)),
              ParseU16(b, t.pos)),
          ParseU16(b, n.pos)),
      ParseName(b, p))

\* <RecordHeader as Composable>::compose_len
HeaderComposeLen(h) == NameComposeLen(h.name) + 10

\* a header composed with CLASS before TYPE
HeaderComposeClassFirst(h) ==
    Cat(NameWire(h.name),
        Oct(U16Bytes(h.class) \o U16Bytes(h.rtype) \o U32Bytes(h.ttl)
                \o U16Bytes(h.rdlen)))

\* <RecordHeader as Composable>::compose
HeaderCompose(h) ==
    Cat(NameWire(h.name),
        Oct(U16Bytes(h.rtype) \o U16Bytes(h.class) \o U32Bytes(h.ttl)
                \o U16Bytes(h.rdlen)))

\* parse_and_skip that hands out the header although the data is cut short
ParseAndSkipUnchecked(b, p) ==
    With1(LAMBDA h :
        IF ~h.ok THEN h
        ELSE [h EXCEPT !.pos = Advance(b, h.pos, h.val.rdlen).pos],
      RecordHeaderParse(b, p))

\* RecordHeader::parse_and_skip
ParseAndSkip(b, p) ==
    With1(LAMBDA h :
        IF ~h.ok THEN h
        ELSE With1(LAMBDA a :
            IF a.ok THEN [h EXCEPT !.pos = a.pos]
            ELSE HeaderErr("ShortBuf", a.pos),
          Advance(b, h.pos, h.val.rdlen)),
      RecordHeaderParse(b, p))

---------------------------------------------------------------------------
(* Record *)

\* Record::new
NewRecord(name, class, ttl, data) ==
    [name |-> name, class |-> class, ttl |-> ttl, data |-> data]

NoRecord == NewRecord(<<>>, 0, U32(0), NoData)

\* RecordHeader::into_record
IntoRecord(h, data) == NewRecord(h.name, h.class, h.ttl, data)

RecordResult(kind, err, val, p) ==
    [kind |-> kind, err |-> err, val |-> val, pos |-> p]

\* RecordHeader::parse_into_record: the cursor stands after the header h
ParseIntoRecord(h, b, p, beh) ==
    With2(LAMBDA end, d :
        IF d.kind = "err" THEN RecordResult("err", "Data", NoRecord, d.pos)
        ELSE IF d.kind = "some"
            THEN RecordResult("some", "", IntoRecord(h, d.data), d.pos)
        ELSE With1(LAMBDA s :
            IF s.ok THEN RecordResult("none", "", NoRecord, s.pos)
            ELSE RecordResult("err", RecordErrFromShortBuf, NoRecord, s.pos),
          Seek(b, d.pos, end)),
      p + h.rdlen, DataParse(h.rtype, h.rdlen, b, p, beh))

\* Option<Record>::parse that leaves the data of a declined record unread
RecordParseNoSkip(b, p, beh) ==
    With1(LAMBDA h :
        IF ~h.ok THEN
            RecordResult("err", RecordErrFromHeaderErr(h.err), NoRecord, h.pos)
        ELSE With1(LAMBDA d :
            IF d.kind = "some"
                THEN RecordResult("some", "", IntoRecord(h.val, d.data), d.pos)
            ELSE IF d.kind = "none"
                THEN RecordResult("none", "", NoRecord, d.pos)
            ELSE RecordResult("err", "Data", NoRecord, d.pos),
          DataParse(h.val.rtype, h.val.rdlen, b, h.pos, beh)),
      RecordHeaderParse(b, p))

\* <Option<Record> as Parseable>::parse
RecordParse(b, p, beh) ==
    With1(LAMBDA h :
        IF ~h.ok THEN
            RecordResult("err", RecordErrFromHeaderErr(h.err), NoRecord, h.pos)
        ELSE With1(LAMBDA d :
            IF d.kind = "some"
                THEN RecordResult("some", "", IntoRecord(h.val, d.data), d.pos)
            ELSE IF d.kind = "none" THEN
                With1(LAMBDA a :
                    IF a.ok THEN RecordResult("none", "", NoRecord, a.pos)
                    ELSE RecordResult("err", RecordErrFromShortBuf, NoRecord,
                                      a.pos),
                  Advance(b, d.pos, h.val.rdlen))
            ELSE RecordResult("err", "Data", NoRecord, d.pos),
          DataParse(h.val.rtype, h.val.rdlen, b, h.pos, beh)),
      RecordHeaderParse(b, p))

---------------------------------------------------------------------------
(* The Compressor: the output buffer, a capacity, and the table of the     *)
(* name suffixes written so far with their offsets.  A value is            *)
(*   [out, comp, cap, ptrs, ok]; ok turns FALSE when a write did not fit   *)
(* (ShortBuf), and every later write of the same composition is skipped,   *)
(* as the ? operator does.                                                 *)

\* buf.compose(x): all of the octets, or ShortBuf and none of them
CPut(c, bytes) ==
    IF ~c.ok THEN c
    ELSE IF OLen(c.out) + OLen(bytes) > c.cap THEN [c EXCEPT !.ok = FALSE]
    ELSE [c EXCEPT !.out = Cat(@, bytes)]

Suffix(name, i) == SubSeq(name, i, Len(name))

Known(table, name) == \E e \in table : e.name = name

OffsetOf(table, name) == (CHOOSE e \in table : e.name = name).off

\* The first label from which on the name is in the table (the longest
\* known suffix); Len(name) + 1 when no suffix is known.
FirstKnown(table, name) ==
    LET hits == { i \in 1..Len(name) : Known(table, Suffix(name, i)) }
    IN  IF hits = {} THEN Len(name) + 1
        ELSE CHOOSE i \in hits : \A j \in hits : i <= j

\* the two octets of a pointer to offset off
PointerBytes(off) == << 192 + (off \div 256), off % 256 >>

\* N::compress: the labels before the longest known suffix in full, then a
\* pointer to that suffix, or the root label when none is known.  Every
\* suffix that starts at a label written here, at an offset a pointer can
\* hold, goes into the table.
NameCompress(c, name) ==
    LET k == FirstKnown(c.comp, name)
        start == OLen(c.out)
        literal == SubSeq(name, 1, k - 1)
        pointed == k <= Len(name)
        tail == IF pointed
                    THEN PointerBytes(OffsetOf(c.comp, Suffix(name, k)))
                    ELSE <<0>>
        bytes == Oct(LabelsWire(literal) \o tail)
        at(i) == start + Len(LabelsWire(SubSeq(name, 1, i - 1)))
        fresh == { [name |-> Suffix(name, i), off |-> at(i)] :
                     i \in { j \in 1..(k - 1) : at(j) <= PtrMax } }
        ptr == IF pointed
                  THEN { [at |-> at(k),
                          off |-> OffsetOf(c.comp, Suffix(name, k)),
                          suffix |-> Suffix(name, k)] }
                  ELSE {}
    IN  IF ~c.ok THEN c
        ELSE IF start + OLen(bytes) > c.cap THEN [c EXCEPT !.ok = FALSE]
        ELSE [c EXCEPT !.out = Cat(@, bytes),
                       !.comp = @ \cup fresh,
                       !.ptrs = @ \cup ptr]

\* D::compress: a name payload goes through the table, octets do not
DataCompress(c, d) ==
    IF d.rtype = RtypeNs THEN NameCompress(c, d.name) ELSE CPut(c, d.bytes)

\* BigEndian::write_u16(&mut buf[at..], v)
WriteU16(b, at, v) ==
    Cat(Cat(Take(b, at), Oct(U16Bytes(v))), Drop(b, at + 2))

---------------------------------------------------------------------------
(* Composing a record *)

\* <Record as Composable>::compose_len
RecordComposeLen(r) ==
    NameComposeLen(r.name) + DataComposeLen(r.data) + 10

\* <Record as Composable>::compose: the header with compose_len() cast to
\* u16 as RDLENGTH, then the payload
RecordCompose(r) ==
    Cat(HeaderCompose(NewHeader(r.name, r.data.rtype, r.class, r.ttl,
                                AsU16(DataComposeLen(r.data)))),
        DataWire(r.data))

\* compress that writes the owner in full, past the Compressor's table
RecordCompressPlainName(c, r) ==
    LET c1 == CPut(c, NameWire(r.name))
        c2 == CPut(c1, Oct(U16Bytes(r.data.rtype)))
        c3 == CPut(c2, Oct(U16Bytes(r.class)))
        c4 == CPut(c3, Oct(U32Bytes(r.ttl)))
        at == OLen(c4.out)
        c5 == CPut(c4, Oct(U16Bytes(0)))
        c6 == DataCompress(c5, r.data)
        len == OLen(c6.out) - at - 2
    IN  IF ~c6.ok THEN [c |-> c6, end |-> "ShortBuf"]
        ELSE IF len > U16Max THEN [c |-> c6, end |-> "panic"]
        ELSE [c |-> [c6 EXCEPT !.out = WriteU16(@, at, len)], end |-> "ok"]

\* <Record as Compressable>::compress.  The result is the Compressor after
\* the call and how the call ended: "ok", "ShortBuf", or "panic" when the
\* assertion on the length fails.
RecordCompress(c, r) ==
    LET c1 == NameCompress(c, r.name)
        c2 == CPut(c1, Oct(U16Bytes(r.data.rtype)))
        c3 == CPut(c2, Oct(U16Bytes(r.class)))
        c4 == CPut(c3, Oct(U32Bytes(r.ttl)))
        at == OLen(c4.out)
        c5 == CPut(c4, Oct(U16Bytes(0)))
        c6 == DataCompress(c5, r.data)
        len == OLen(c6.out) - at - 2
    IN  IF ~c6.ok THEN [c |-> c6, end |-> "ShortBuf"]
        ELSE IF len > U16Max THEN [c |-> c6, end |-> "panic"]
        ELSE [c |-> [c6 EXCEPT !.out = WriteU16(@, at, len)], end |-> "ok"]

---------------------------------------------------------------------------
(* Base 16 (src/src/utils/base16.rs).  A character is its code point, a    *)
(* string a sequence of characters.  A Decoder is [buf, ok, octets, err]:  *)
(* buf the upper half of an octet or NoHalf, and the target either the     *)
(* octets built so far (ok) or the error it was replaced by.  The target   *)
(* builder takes `room` octets and refuses the next.                       *)

\* buf: None
NoHalf == -1

\* DecodeError
NoErr == [kind |-> "", ch |-> 0]
IllegalChar(ch) == [kind |-> "IllegalChar", ch |-> ch]
ShortInput == [kind |-> "ShortInput", ch |-> 0]
DecodeShortBuf == [kind |-> "ShortBuf", ch |-> 0]

\* ch.to_digit(16): -1 for None
ToDigit(ch) ==
    IF ch \in 48..57 THEN ch - 48
    ELSE IF ch \in 65..70 THEN ch - 55
    ELSE IF ch \in 97..102 THEN ch - 87
    ELSE -1

\* ENCODE_ALPHABET: 0..9, A..F
EncodeAlphabet ==
    <<48, 49, 50, 51, 52, 53, 54, 55, 56, 57, 65, 66, 67, 68, 69, 70>>

\* Decoder::new
DecoderNew == [buf |-> NoHalf, ok |-> TRUE, octets |-> <<>>, err |-> NoErr]

\* a Decoder that has been consumed
NoDecoder == [buf |-> NoHalf, ok |-> FALSE, octets |-> <<>>, err |-> NoErr]

\* a Decoder whose target is replaced by an error
Failed(d, e) == [d EXCEPT !.ok = FALSE, !.octets = <<>>, !.err = e]

\* Decoder::append
DecoderAppend(d, value, room) ==
    IF ~d.ok THEN d
    ELSE IF OLen(d.octets) + 1 > room THEN Failed(d, DecodeShortBuf)
    ELSE [d EXCEPT !.octets = Cat(@, Oct(<<value>>))]

\* What push returns and the Decoder it leaves
Pushed(d) == [d |-> d, ok |-> d.ok, err |-> d.err]

\* push that reports an illegal character without keeping the error
DecoderPushForgetful(d, ch, room) ==
    With1(LAMBDA value :
        IF value = -1
            THEN [d |-> d, ok |-> FALSE, err |-> IllegalChar(ch)]
        ELSE IF d.buf # NoHalf
            THEN Pushed(DecoderAppend([d EXCEPT !.buf = NoHalf],
                                      d.buf + value, room))
            ELSE Pushed([d EXCEPT !.buf = (value * 16) % 256]),
      ToDigit(ch))

\* Decoder::push.  upper | value is their sum: the upper half has no low
\* bits and value is below 16.
DecoderPush(d, ch, room) ==
    With1(LAMBDA value :
        IF value = -1
            THEN [d |-> Failed(d, IllegalChar(ch)), ok |-> FALSE,
                  err |-> IllegalChar(ch)]
        ELSE IF d.buf # NoHalf
            THEN Pushed(DecoderAppend([d EXCEPT !.buf = NoHalf],
                                      d.buf + value, room))
            ELSE Pushed([d EXCEPT !.buf = (value * 16) % 256]),
      ToDigit(ch))

Decoded(ok, err, octets) == [ok |-> ok, err |-> err, octets |-> octets]

\* Decoder::finalize
DecoderFinalize(d) ==
    IF d.buf # NoHalf THEN Decoded(FALSE, ShortInput, <<>>)
    ELSE IF d.ok THEN Decoded(TRUE, NoErr, d.octets)
    ELSE Decoded(FALSE, d.err, <<>>)

\* the loop of decode from the i-th character on
RECURSIVE DecodeFrom(_, _, _, _)
DecodeFrom(d, s, i, room) ==
    IF i > Len(s) THEN DecoderFinalize(d)
    ELSE With1(LAMBDA r :
            IF ~r.ok THEN Decoded(FALSE, r.err, <<>>)
            ELSE DecodeFrom(r.d, s, i + 1, room),
          DecoderPush(d, s[i], room))

\* decode(s)
Decode(s, room) == DecodeFrom(DecoderNew, s, 1, room)

\* display that writes the low half of an octet first
DisplayLowFirst(b) ==
    [i \in 1..(2 * OLen(b)) |->
        IF i % 2 = 1 THEN EncodeAlphabet[(At(b, (i + 1) \div 2) % 16) + 1]
        ELSE EncodeAlphabet[(At(b, i \div 2) \div 16) + 1]]

\* display(octets, f), f a String
Display(b) ==
    [i \in 1..(2 * OLen(b)) |->
        IF i % 2 = 1 THEN EncodeAlphabet[(At(b, (i + 1) \div 2) \div 16) + 1]
        ELSE EncodeAlphabet[(At(b, i \div 2) % 16) + 1]]

---------------------------------------------------------------------------
(* What an operation reports: which operation it was, how it ended and     *)
(* with what, where the cursor stood before it, where the header it read   *)
(* ended, that header, and what the payload type was made to do; for a     *)
(* composition read back, which one; for an option, its value, the value   *)
(* it was composed from and the octets written; for the Decoder, its error *)
(* and the octets it returned.                                             *)

Res0 ==
    [op |-> "init", kind |-> "", err |-> "", rec |-> NoRecord,
     head |-> NoHeader, start |-> 0, hend |-> 0, hok |-> FALSE,
     beh |-> Lawful, idx |-> 0, opt |-> 0, orig |-> 0, wrote |-> <<>>,
     derr |-> NoErr, octets |-> <<>>]

NotHeld == [held |-> FALSE, val |-> NoHeader]

Decoding == <<dec, text>>

---------------------------------------------------------------------------
(* Parsing records from a buffer *)

Prefixes(b) == { Take(b, n) : n \in 0..OLen(b) }

\* The records the parsed buffers are made of: the root or a one-label
\* name, a type a payload type may implement or a private one, a TTL that
\* is allowed or is not, and a payload of RDLENGTH octets.
WireRecords ==
    { Cat(HeaderCompose(NewHeader(n, t, ClassIn, l, k)), Filled(k)) :
        n \in { <<>>, << <<97>> >> },
        t \in { RtypeTxt, RtypePrivate },
        l \in { U32(3600), <<TtlMaxHigh + 1, 0>> },
        k \in 0..MaxRdlen }

\* the record that follows: a one-label name and one octet of payload
NextRecord ==
    Cat(HeaderCompose(NewHeader(<< <<98>> >>, RtypeTxt, ClassIn, U32(3600), 1)),
        Oct(<<Fill + 1>>))

\* One record followed by another, cut off anywhere
ParseBuffers == UNION { Prefixes(Cat(a, NextRecord)) : a \in WireRecords }

InitParse ==
    /\ buf \in ParseBuffers
    /\ pos = 0
    /\ hdr = NotHeld
    /\ res = Res0
    /\ out = <<>>
    /\ comp = {}
    /\ cap = 0
    /\ recs = <<>>
    /\ ptrs = {}
    /\ dec = NoDecoder
    /\ text = <<>>

Composing == <<out, comp, cap, recs, ptrs>>

\* Option<Record>::parse(parser)
DoRecordParse(beh) ==
    /\ ~hdr.held
    /\ \E h \in {RecordHeaderParse(buf, pos)}, r \in {RecordParse(buf, pos, beh)} :
           /\ pos' = r.pos
           /\ res' = [Res0 EXCEPT !.op = "record_parse", !.kind = r.kind,
                                  !.err = r.err, !.rec = r.val,
                                  !.head = h.val, !.hok = h.ok,
                                  !.start = pos, !.hend = h.pos,
                                  !.beh = beh]
    /\ UNCHANGED <<buf, hdr>>
    /\ UNCHANGED Composing
    /\ UNCHANGED Decoding

\* RecordHeader::parse(parser); the caller keeps the header
DoHeaderParse ==
    /\ ~hdr.held
    /\ \E h \in {RecordHeaderParse(buf, pos)} :
           /\ pos' = h.pos
           /\ hdr' = [held |-> h.ok, val |-> h.val]
           /\ res' = [Res0 EXCEPT !.op = "header_parse",
                                  !.kind = IF h.ok THEN "some" ELSE "err",
                                  !.err = h.err, !.head = h.val,
                                  !.hok = h.ok, !.start = pos,
                                  !.hend = h.pos]
    /\ UNCHANGED buf
    /\ UNCHANGED Composing
    /\ UNCHANGED Decoding

\* header.parse_into_record(parser), right after RecordHeader::parse
DoParseIntoRecord(beh) ==
    /\ hdr.held
    /\ \E r \in {ParseIntoRecord(hdr.val, buf, pos, beh)} :
           /\ pos' = r.pos
           /\ res' = [Res0 EXCEPT !.op = "parse_into_record",
                                  !.kind = r.kind, !.err = r.err,
                                  !.rec = r.val, !.head = hdr.val,
                                  !.hok = TRUE, !.start = res.start,
                                  !.hend = pos, !.beh = beh]
    /\ hdr' = NotHeld
    /\ UNCHANGED buf
    /\ UNCHANGED Composing
    /\ UNCHANGED Decoding

\* RecordHeader::parse_and_skip(parser)
DoParseAndSkip ==
    /\ ~hdr.held
    /\ \E h \in {RecordHeaderParse(buf, pos)}, r \in {ParseAndSkip(buf, pos)} :
           /\ pos' = r.pos
           /\ res' = [Res0 EXCEPT !.op = "parse_and_skip",
                                  !.kind = IF r.ok THEN "some" ELSE "err",
                                  !.err = r.err, !.head = r.val,
                                  !.hok = h.ok, !.start = pos,
                                  !.hend = h.pos]
    /\ UNCHANGED <<buf, hdr>>
    /\ UNCHANGED Composing
    /\ UNCHANGED Decoding

NextParse ==
    \/ \E beh \in Behaviours(MaxEat) : DoRecordParse(beh)
    \/ DoHeaderParse
    \/ \E beh \in Behaviours(MaxEat) : DoParseIntoRecord(beh)
    \/ DoParseAndSkip

SpecParse == InitParse /\ [][NextParse]_vars

---------------------------------------------------------------------------
(* Claims about parsing records *)

RecordOps == {"record_parse", "parse_into_record"}

\* the end of the record whose header the last operation read
RecordEnd == res.hend + res.head.rdlen

\* where the payload type left the cursor when it declined or failed
Stopped == res.hend + Min(res.beh.eat, OLen(buf) - res.hend)

\* the rest of the buffer from the cursor on, as a buffer of its own
Rest == Drop(buf, pos)

\* The record at the cursor parses as it does when the rest of the buffer
\* is parsed on its own.
NextParsesAlike ==
    LET here == RecordParse(buf, pos, Lawful)
        alone == RecordParse(Rest, 0, Lawful)
    IN  /\ here.kind = alone.kind
        /\ here.err = alone.err
        /\ here.val = alone.val
        /\ here.pos = pos + alone.pos

\* C1: when the header parses and the payload type fails on a record that
\* lies whole in the buffer, Option<Record>::parse and parse_into_record
\* return the payload error with the cursor at the end of the record,
\* however far the payload type had read.
C1_ErrorLeavesCursorAtRecordEnd ==
    ( /\ res.op \in RecordOps
      /\ res.hok
      /\ res.beh.kind = "err"
      /\ res.beh.eat <= res.head.rdlen
      /\ RecordEnd <= OLen(buf) )
    => /\ res.kind = "err"
       /\ res.err = "Data"
       /\ pos = RecordEnd

HeaderOps == {"header_parse", "record_parse", "parse_and_skip"}

\* the name the last operation started at, and what follows the name
NameAtStart == ParseName(buf, res.start)
AfterName == OLen(buf) - NameAtStart.pos

\* the four octets of the TTL are there and are a disallowed encoding
TtlRefused ==
    /\ AfterName >= 8
    /\ ~TtlParse(buf, NameAtStart.pos + 4).ok

C8_ParseAndSkip ==
    res.op = "parse_and_skip" =>
        LET h == RecordHeaderParse(buf, res.start) IN
        IF ~h.ok THEN res.kind = "err" /\ res.err = h.err
        ELSE IF OLen(buf) - h.pos >= h.val.rdlen
            THEN /\ res.kind = "some"
                 /\ res.head = h.val
                 /\ pos = h.pos + h.val.rdlen
            ELSE /\ res.kind = "err"
                 /\ res.err = "ShortBuf"
                 /\ res.head = NoHeader

\* a header was returned and its payload skipped
C8_Witness ==
    /\ res.op = "parse_and_skip"
    /\ res.kind = "some"
    /\ res.head.rdlen = MaxRdlen
    /\ pos = res.hend + MaxRdlen
    /\ pos < OLen(buf)

\* the payload was cut short and no header was returned
C8_WitnessShort ==
    /\ res.op = "parse_and_skip"
    /\ res.hok
    /\ res.kind = "err"
    /\ res.err = "ShortBuf"
    /\ OLen(buf) - res.hend < RecordHeaderParse(buf, res.start).val.rdlen

---------------------------------------------------------------------------
(* Composing records into one buffer, and parsing them back *)

\* the labels a, b, example, com and org
LabelA == <<97>>
LabelB == <<98>>
LabelExample == <<101, 120, 97, 109, 112, 108, 101>>
LabelCom == <<99, 111, 109>>
LabelOrg == <<111, 114, 103>>

\* the owners: a.example.com, b.example.com and org
Names ==
    { <<LabelA, LabelExample, LabelCom>>, <<LabelB, LabelExample, LabelCom>>,
      <<LabelOrg>> }

\* the names in payloads: example.com and org
Targets == { <<LabelExample, LabelCom>>, <<LabelOrg>> }

\* payloads of a few octets, and payloads that are names
SmallData ==
    { RawData(RtypeTxt, Filled(n)) : n \in 0..MaxRaw }
    \cup { NsData(n) : n \in Targets }

\* payloads that push what follows past the reach of a pointer, that just
\* fit RDLENGTH, and that do not fit it
LargeData ==
    { RawData(RtypeTxt, Filled(n)) : n \in {PtrMax + 1, U16Max, U16Max + 1} }

\* The records composed: every name with every small payload and, as the
\* first record of a message, example.com with a large payload.
Records(first) ==
    { NewRecord(n, ClassIn, U32(3600), d) : n \in Names, d \in SmallData }
    \cup (IF first
            THEN { NewRecord(<<LabelExample, LabelCom>>, ClassIn, U32(3600), d) :
                     d \in LargeData }
            ELSE {})

\* a DNS message is at most 65535 octets: nothing is added to a longer one
MsgMax == U16Max

InitCompose ==
    /\ buf = <<>>
    /\ pos = 0
    /\ hdr = NotHeld
    /\ res = Res0
    /\ out = <<>>
    /\ comp = {}
    /\ cap \in {CapSmall, CapLarge}
    /\ recs = <<>>
    /\ ptrs = {}
    /\ dec = NoDecoder
    /\ text = <<>>

\* What is remembered of a composition: the record, where it starts and
\* stops in the buffer, where its RDLENGTH field is, by which path it was
\* written and how that ended.
Composed(r, start, lenAt, stop, mode, end) ==
    [rec |-> r, start |-> start, lenAt |-> lenAt, stop |-> stop,
     mode |-> mode, end |-> end]

\* record.compose(&mut buf)
DoCompose(r) ==
    /\ Len(recs) < MaxRecs
    /\ OLen(out) <= MsgMax
    /\ res.kind # "panic"
    /\ out' = Cat(out, RecordCompose(r))
    /\ recs' = Append(recs,
                 Composed(r, OLen(out), OLen(out) + NameComposeLen(r.name) + 8,
                          OLen(out'), "compose", "ok"))
    /\ res' = [Res0 EXCEPT !.op = "compose", !.kind = "ok", !.rec = r,
                           !.start = OLen(out)]
    /\ UNCHANGED <<buf, pos, hdr, comp, cap, ptrs>>
    /\ UNCHANGED Decoding

\* record.compress(&mut compressor)
DoCompress(r) ==
    /\ Len(recs) < MaxRecs
    /\ OLen(out) <= MsgMax
    /\ res.kind # "panic"
    /\ \E c \in {[out |-> out, comp |-> comp, cap |-> cap, ptrs |-> ptrs,
                  ok |-> TRUE]} :
       \E x \in {RecordCompress(c, r)}, named \in {NameCompress(c, r.name)} :
           /\ out' = x.c.out
           /\ comp' = x.c.comp
           /\ ptrs' = x.c.ptrs
           /\ recs' = Append(recs,
                        Composed(r, OLen(out), OLen(named.out) + 8,
                                 OLen(x.c.out), "compress", x.end))
           /\ res' = [Res0 EXCEPT !.op = "compress",
                                  !.kind = IF x.end = "ok" THEN "ok"
                                           ELSE IF x.end = "panic" THEN "panic"
                                           ELSE "err",
                                  !.err = IF x.end = "ShortBuf" THEN "ShortBuf"
                                          ELSE "",
                                  !.rec = r, !.start = OLen(out)]
    /\ UNCHANGED <<buf, pos, hdr, cap>>
    /\ UNCHANGED Decoding

\* Option<Record>::parse on the composed octets, at the i-th record
DoParseBack(i) ==
    /\ res.kind # "panic"
    /\ \E h \in {RecordHeaderParse(out, recs[i].start)},
          r \in {RecordParse(out, recs[i].start, Lawful)} :
           /\ pos' = r.pos
           /\ res' = [Res0 EXCEPT !.op = "parse_back", !.kind = r.kind,
                                  !.err = r.err, !.rec = r.val,
                                  !.head = h.val, !.hok = h.ok,
                                  !.start = recs[i].start, !.hend = h.pos,
                                  !.idx = i]
    /\ UNCHANGED <<buf, hdr>>
    /\ UNCHANGED Composing
    /\ UNCHANGED Decoding

\* RecordHeader::parse on the composed octets, at the i-th record
DoHeaderBack(i) ==
    /\ res.kind # "panic"
    /\ \E h \in {RecordHeaderParse(out, recs[i].start)} :
           /\ pos' = h.pos
           /\ res' = [Res0 EXCEPT !.op = "header_back",
                                  !.kind = IF h.ok THEN "some" ELSE "err",
                                  !.err = h.err, !.head = h.val,
                                  !.hok = h.ok, !.start = recs[i].start,
                                  !.hend = h.pos, !.idx = i]
    /\ UNCHANGED <<buf, hdr>>
    /\ UNCHANGED Composing
    /\ UNCHANGED Decoding

NextCompose ==
    \/ \E r \in Records(recs = <<>>) : DoCompose(r)
    \/ \E r \in Records(recs = <<>>) : DoCompress(r)
    \/ \E i \in 1..Len(recs) : DoParseBack(i)
    \/ \E i \in 1..Len(recs) : DoHeaderBack(i)

SpecCompose == InitCompose /\ [][NextCompose]_vars

---------------------------------------------------------------------------
(* Claims about composing records *)

ComposeOps == {"compose", "compress"}

\* the composition the last operation made or read back
Last == recs[Len(recs)]
Read == recs[res.idx]

\* the octets a composition wrote after its RDLENGTH field
Written(e) == e.stop - e.lenAt - 2

\* the RDLENGTH field a composition left in the buffer
Rdlength(e) == At(out, e.lenAt + 1) * 256 + At(out, e.lenAt + 2)

\* C2: composing a record whose payload is longer than 65535 octets is
\* reported as an error by Record::compose and by Record::compress: the
\* call neither aborts nor leaves a truncated RDLENGTH behind.
C2_OversizeIsAnError ==
    ( /\ res.op \in ComposeOps
      /\ Written(Last) > U16Max )
    => res.kind = "err"

\* C4: after a composition that returned without an error, the RDLENGTH
\* field in the buffer is the number of payload octets written after it.
C4_RdlengthIsPayloadLength ==
    ( /\ res.op \in ComposeOps
      /\ res.kind = "ok" )
    => Rdlength(Last) = Written(Last)

\* the ten octets after the owner name of a composition
FixedFields(e) ==
    Sub(out, e.lenAt - 7, e.lenAt + 2)

\* C5: a record composed with Record::compose whose payload is at most
\* 65535 octets long parses back to the same name, type, class, TTL and
\* payload, and its header parses back to the same header; TYPE, CLASS,
\* TTL and RDLENGTH follow the name in that order, big-endian; the parse
\* consumes compose_len() = name length + 10 + payload length octets.
C5_RoundTrip ==
    ( /\ res.op \in {"parse_back", "header_back"}
      /\ Read.mode = "compose"
      /\ DataComposeLen(Read.rec.data) <= U16Max )
    => LET r == Read.rec
           h == NewHeader(r.name, r.data.rtype, r.class, r.ttl,
                          DataComposeLen(r.data))
       IN  /\ res.kind = "some"
           /\ res.head = h
           /\ FixedFields(Read) =
                Oct(U16Bytes(h.rtype) \o U16Bytes(h.class)
                        \o U32Bytes(h.ttl) \o U16Bytes(h.rdlen))
           /\ res.op = "header_back" =>
                pos = Read.start + NameComposeLen(r.name) + 10
           /\ res.op = "parse_back" =>
                /\ res.rec = r
                /\ pos = Read.start + RecordComposeLen(r)
                /\ pos = Read.start + NameComposeLen(r.name) + 10
                           + DataComposeLen(r.data)

\* a record with the longest payload RDLENGTH can hold was read back
C5_Witness ==
    /\ res.op = "parse_back"
    /\ Read.mode = "compose"
    /\ DataComposeLen(Read.rec.data) = U16Max
    /\ res.rec = Read.rec

\* a record with a name as payload was read back after another record
C5_WitnessName ==
    /\ res.op = "parse_back"
    /\ res.idx = MaxRecs
    /\ Read.mode = "compose"
    /\ Read.rec.data.rtype = RtypeNs
    /\ res.rec = Read.rec

\* C6: every compression pointer written through one Compressor has an
\* offset in 0..16383 and points back to the start of a name suffix, equal
\* to the one it stands for, in the same buffer; the owner of every record
\* written with Record::compress parses back unchanged; a.example.com
\* followed by b.example.com is written as the label b and a pointer to
\* example.com inside the first name.
C6_Compression ==
    /\ \A p \in ptrs :
          /\ p.off \in 0..PtrMax
          /\ p.off < p.at
          /\ Sub(out, p.at + 1, p.at + 2) = Oct(PointerBytes(p.off))
          /\ ParseName(out, p.off).ok
          /\ ParseName(out, p.off).name = p.suffix
    /\ ( /\ res.op \in {"parse_back", "header_back"}
         /\ Read.mode = "compress"
         /\ Read.end = "ok" )
       => /\ res.kind = "some"
          /\ res.head.name = Read.rec.name
    /\ ( /\ Len(recs) >= 2
         /\ recs[1].mode = "compress"
         /\ recs[2].mode = "compress"
         /\ recs[1].rec.name = <<LabelA, LabelExample, LabelCom>>
         /\ recs[2].rec.name = <<LabelB, LabelExample, LabelCom>>
         /\ recs[2].end = "ok" )
       => Sub(out, recs[2].start + 1, recs[2].start + 4)
            = Oct(<<1, 98, 192, 2>>)

\* b.example.com, written after a.example.com, was read back
C6_Witness ==
    /\ res.op = "parse_back"
    /\ res.idx = 2
    /\ res.kind = "some"
    /\ recs[1].mode = "compress"
    /\ recs[2].mode = "compress"
    /\ recs[1].rec.name = <<LabelA, LabelExample, LabelCom>>
    /\ recs[2].rec.name = <<LabelB, LabelExample, LabelCom>>
    /\ res.head.name = <<LabelB, LabelExample, LabelCom>>
    /\ [at |-> recs[2].start + 2, off |-> 2,
        suffix |-> <<LabelExample, LabelCom>>] \in ptrs

\* org was written in full twice behind a large payload, beyond the reach
\* of a pointer
C6_WitnessFar ==
    /\ Len(recs) = 2
    /\ recs[2].mode = "compress"
    /\ recs[2].end = "ok"
    /\ recs[2].start > PtrMax
    /\ recs[2].rec.name = <<LabelOrg>>
    /\ recs[2].rec.data = NsData(<<LabelOrg>>)
    /\ Written(recs[2]) = NameComposeLen(<<LabelOrg>>)

\* a name payload was shortened to a pointer and RDLENGTH counts 2 octets
C4_WitnessShortened ==
    /\ res.op = "compress"
    /\ res.kind = "ok"
    /\ res.rec.data.rtype = RtypeNs
    /\ Written(Last) = 2
    /\ Rdlength(Last) = 2

---------------------------------------------------------------------------
(* EDNS options: Expire (RFC 7314) and TcpKeepalive (RFC 7828).  The data  *)
(* region of an option is a buffer of its own, its length given by the     *)
(* option's framing; the target composed into grows as needed.             *)

\* Expire(Option<u32>)
ExpireNone == [some |-> FALSE, val |-> U32(0)]
ExpireSome(v) == [some |-> TRUE, val |-> v]

OptResult(ok, val, p) == [ok |-> ok, val |-> val, pos |-> p]

\* <Expire as Parse>::parse
ExpireParse(b, p) ==
    IF Remaining(b, p) = 0
        THEN OptResult(TRUE, ExpireNone, p)
        ELSE LET v == ParseU32(b, p) IN
            IF v.ok THEN OptResult(TRUE, ExpireSome(v.val), v.pos)
            ELSE OptResult(FALSE, ExpireNone, v.pos)

\* Expire::skip that advances four octets whatever remains
ExpireSkipAlways(b, p) == Advance(b, p, 4)

\* <Expire as Parse>::skip
ExpireSkip(b, p) ==
    IF Remaining(b, p) = 0
        THEN [ok |-> TRUE, pos |-> p]
        ELSE Advance(b, p, 4)

\* Expire::compose that writes the low half of the value first
ExpireComposeLowFirst(e) ==
    IF e.some THEN Oct(U16Bytes(e.val[2]) \o U16Bytes(e.val[1])) ELSE <<>>

\* <Expire as Compose>::compose
ExpireCompose(e) == IF e.some THEN Oct(U32Bytes(e.val)) ELSE <<>>

\* TcpKeepalive::parse that reads the timeout low octet first
TcpKeepaliveParseSwapped(b, p) ==
    IF Remaining(b, p) < 2 THEN OptResult(FALSE, 0, p)
    ELSE OptResult(TRUE, At(b, p + 2) * 256 + At(b, p + 1), p + 2)

\* <TcpKeepalive as Parse>::parse
TcpKeepaliveParse(b, p) ==
    LET v == ParseU16(b, p) IN OptResult(v.ok, v.val, v.pos)

\* <TcpKeepalive as Parse>::skip
TcpKeepaliveSkip(b, p) == Advance(b, p, 2)

\* <TcpKeepalive as Compose>::compose
TcpKeepaliveCompose(t) == Oct(U16Bytes(t))

\* the octets data regions are made of
OptOctets == {0, 14, 16, 150}

RECURSIVE Regions(_)
Regions(n) ==
    IF n = 0 THEN { <<>> }
    ELSE Regions(n - 1)
         \cup { Append(r, o) : r \in { x \in Regions(n - 1) : Len(x) = n - 1 },
                               o \in OptOctets }

\* the values composed
ExpireValues ==
    { ExpireNone, ExpireSome(U32(0)), ExpireSome(U32(3600)),
      ExpireSome(<<3600, 150>>), ExpireSome(<<U16Max, U16Max>>) }

TimeoutValues == { 0, 150, 3600, 38400, U16Max }

InitOpt ==
    /\ buf \in { Oct(r) : r \in Regions(MaxRegion) }
    /\ pos = 0
    /\ hdr = NotHeld
    /\ res = Res0
    /\ out = <<>>
    /\ comp = {}
    /\ cap = 0
    /\ recs = <<>>
    /\ ptrs = {}
    /\ dec = NoDecoder
    /\ text = <<>>

OptRes(op, ok, val, wrote) ==
    [Res0 EXCEPT !.op = op, !.kind = IF ok THEN "some" ELSE "err",
                 !.opt = val, !.wrote = wrote]

Untouched == <<hdr, comp, cap, recs, ptrs>>

\* Expire::parse(parser) on the data region
DoExpireParse ==
    /\ res.op = "init"
    /\ \E r \in {ExpireParse(buf, pos)} :
           /\ pos' = r.pos
           /\ res' = OptRes("expire_parse", r.ok, r.val, <<>>)
    /\ UNCHANGED <<buf, out>>
    /\ UNCHANGED Untouched
    /\ UNCHANGED Decoding

\* Expire::skip(parser) on the data region
DoExpireSkip ==
    /\ res.op = "init"
    /\ \E r \in {ExpireSkip(buf, pos)} :
           /\ pos' = r.pos
           /\ res' = OptRes("expire_skip", r.ok, ExpireNone, <<>>)
    /\ UNCHANGED <<buf, out>>
    /\ UNCHANGED Untouched
    /\ UNCHANGED Decoding

\* expire.compose(target), of a value made with Expire::new
DoExpireCompose(e) ==
    /\ res.op = "init"
    /\ out' = Cat(out, ExpireCompose(e))
    /\ res' = OptRes("expire_compose", TRUE, e, ExpireCompose(e))
    /\ UNCHANGED <<buf, pos>>
    /\ UNCHANGED Untouched
    /\ UNCHANGED Decoding

\* expire.compose(target), of the value just parsed
DoExpireRecompose ==
    /\ res.op = "expire_parse"
    /\ res.kind = "some"
    /\ out' = Cat(out, ExpireCompose(res.opt))
    /\ res' = OptRes("expire_recompose", TRUE, res.opt, ExpireCompose(res.opt))
    /\ UNCHANGED <<buf, pos>>
    /\ UNCHANGED Untouched
    /\ UNCHANGED Decoding

\* Expire::parse(parser) on what was just composed
DoExpireReparse ==
    /\ res.op = "expire_compose"
    /\ \E r \in {ExpireParse(out, 0)} :
           /\ pos' = r.pos
           /\ res' = [OptRes("expire_reparse", r.ok, r.val, res.wrote)
                        EXCEPT !.orig = res.opt]
    /\ UNCHANGED <<buf, out>>
    /\ UNCHANGED Untouched
    /\ UNCHANGED Decoding

\* TcpKeepalive::parse(parser) on the data region
DoKeepaliveParse ==
    /\ res.op = "init"
    /\ \E r \in {TcpKeepaliveParse(buf, pos)} :
           /\ pos' = r.pos
           /\ res' = OptRes("keepalive_parse", r.ok, r.val, <<>>)
    /\ UNCHANGED <<buf, out>>
    /\ UNCHANGED Untouched
    /\ UNCHANGED Decoding

\* TcpKeepalive::skip(parser) on the data region
DoKeepaliveSkip ==
    /\ res.op = "init"
    /\ \E r \in {TcpKeepaliveSkip(buf, pos)} :
           /\ pos' = r.pos
           /\ res' = OptRes("keepalive_skip", r.ok, 0, <<>>)
    /\ UNCHANGED <<buf, out>>
    /\ UNCHANGED Untouched
    /\ UNCHANGED Decoding

\* keepalive.compose(target), of a value made with TcpKeepalive::new
DoKeepaliveCompose(t) ==
    /\ res.op = "init"
    /\ out' = Cat(out, TcpKeepaliveCompose(t))
    /\ res' = OptRes("keepalive_compose", TRUE, t, TcpKeepaliveCompose(t))
    /\ UNCHANGED <<buf, pos>>
    /\ UNCHANGED Untouched
    /\ UNCHANGED Decoding

\* keepalive.compose(target), of the value just parsed
DoKeepaliveRecompose ==
    /\ res.op = "keepalive_parse"
    /\ res.kind = "some"
    /\ out' = Cat(out, TcpKeepaliveCompose(res.opt))
    /\ res' = OptRes("keepalive_recompose", TRUE, res.opt,
                     TcpKeepaliveCompose(res.opt))
    /\ UNCHANGED <<buf, pos>>
    /\ UNCHANGED Untouched
    /\ UNCHANGED Decoding

\* TcpKeepalive::parse(parser) on what was just composed
DoKeepaliveReparse ==
    /\ res.op = "keepalive_compose"
    /\ \E r \in {TcpKeepaliveParse(out, 0)} :
           /\ pos' = r.pos
           /\ res' = [OptRes("keepalive_reparse", r.ok, r.val, res.wrote)
                        EXCEPT !.orig = res.opt]
    /\ UNCHANGED <<buf, out>>
    /\ UNCHANGED Untouched
    /\ UNCHANGED Decoding

NextOpt ==
    \/ DoExpireParse
    \/ DoExpireSkip
    \/ \E e \in ExpireValues : DoExpireCompose(e)
    \/ DoExpireRecompose
    \/ DoExpireReparse
    \/ DoKeepaliveParse
    \/ DoKeepaliveSkip
    \/ \E t \in TimeoutValues : DoKeepaliveCompose(t)
    \/ DoKeepaliveRecompose
    \/ DoKeepaliveReparse

SpecOpt == InitOpt /\ [][NextOpt]_vars

---------------------------------------------------------------------------
(* Claims about the options *)

\* C9: Expire round-trips.  Composing Expire(None) writes nothing and
\* composing Expire(Some(v)) writes the 4 big-endian octets of v; a region
\* with nothing left parses to Expire(None) and a region of 4 octets to
\* Expire(Some(v)), v their big-endian value (00 00 0E 10 is 3600); so a
\* composed value parses back to itself and a region of 0 or 4 octets is
\* composed back from what it parsed to.
C9_ExpireRoundTrip ==
    /\ res.op = "expire_compose" =>
         /\ out = res.wrote
         /\ ~res.opt.some => res.wrote = <<>>
         /\ res.opt.some =>
              res.wrote = Oct(<< res.opt.val[1] \div 256, res.opt.val[1] % 256,
                                 res.opt.val[2] \div 256,
                                 res.opt.val[2] % 256 >>)
         /\ res.opt = ExpireSome(U32(3600)) => res.wrote = Oct(<<0, 0, 14, 16>>)
    /\ res.op = "expire_parse" =>
         /\ OLen(buf) = 0 =>
              res.kind = "some" /\ res.opt = ExpireNone /\ pos = 0
         /\ OLen(buf) = 4 =>
              /\ res.kind = "some"
              /\ res.opt = ExpireSome(<< At(buf, 1) * 256 + At(buf, 2),
                                         At(buf, 3) * 256 + At(buf, 4) >>)
              /\ pos = 4
         /\ buf = Oct(<<0, 0, 14, 16>>) => res.opt = ExpireSome(U32(3600))
    /\ res.op = "expire_reparse" =>
         /\ res.kind = "some"
         /\ res.opt = res.orig
         /\ pos = OLen(out)
    /\ (res.op = "expire_recompose" /\ OLen(buf) \in {0, 4}) => out = buf

\* 00 00 0E 10 was parsed to 3600 and composed back
C9_Witness ==
    /\ res.op = "expire_recompose"
    /\ buf = Oct(<<0, 0, 14, 16>>)
    /\ res.opt = ExpireSome(U32(3600))
    /\ out = buf

\* a value with the top bit set was composed and parsed back
C9_WitnessReparse ==
    /\ res.op = "expire_reparse"
    /\ res.opt = ExpireSome(<<U16Max, U16Max>>)
    /\ out = Oct(<<255, 255, 255, 255>>)

\* C10: TcpKeepalive round-trips.  compose writes exactly the 2 big-endian
\* octets of the timeout and parse reads one big-endian 16-bit integer
\* (00 96 is 150); so a composed timeout parses back to itself, a region of
\* 2 octets is composed back from what it parsed to, and a region shorter
\* than 2 octets does not parse.
C10_KeepaliveRoundTrip ==
    /\ res.op = "keepalive_compose" =>
         /\ out = res.wrote
         /\ res.wrote = Oct(<< res.opt \div 256, res.opt % 256 >>)
         /\ res.opt = 150 => res.wrote = Oct(<<0, 150>>)
    /\ res.op = "keepalive_parse" =>
         /\ OLen(buf) < 2 => res.kind = "err" /\ pos = 0
         /\ OLen(buf) >= 2 =>
              /\ res.kind = "some"
              /\ res.opt = At(buf, 1) * 256 + At(buf, 2)
              /\ pos = 2
         /\ buf = Oct(<<0, 150>>) => res.opt = 150
    /\ res.op = "keepalive_reparse" =>
         /\ res.kind = "some"
         /\ res.opt = res.orig
         /\ pos = 2
    /\ (res.op = "keepalive_recompose" /\ OLen(buf) = 2) => out = buf

\* 00 96 was parsed to 150 and composed back
C10_Witness ==
    /\ res.op = "keepalive_recompose"
    /\ buf = Oct(<<0, 150>>)
    /\ res.opt = 150
    /\ out = Oct(<<0, 150>>)

\* a region of one octet did not parse
C10_WitnessShort ==
    /\ res.op = "keepalive_parse"
    /\ OLen(buf) = 1
    /\ res.kind = "err"

\* C13: Expire::skip mirrors Expire::parse.  On every data region skip
\* succeeds exactly when parse succeeds and leaves the cursor where parse
\* leaves it: no advance when nothing remains, four octets otherwise, and a
\* failure when 1 to 3 octets remain.
C13_SkipMirrorsParse ==
    /\ res.op = "expire_skip" =>
         /\ (res.kind = "some") = ExpireParse(buf, 0).ok
         /\ pos = ExpireParse(buf, 0).pos
         /\ OLen(buf) = 0 => res.kind = "some" /\ pos = 0
         /\ OLen(buf) >= 4 => res.kind = "some" /\ pos = 4
         /\ OLen(buf) \in 1..3 => res.kind = "err" /\ ~ExpireParse(buf, 0).ok
    /\ res.op = "expire_parse" =>
         /\ (res.kind = "some") = ExpireSkip(buf, 0).ok
         /\ pos = ExpireSkip(buf, 0).pos

\* four octets were skipped
C13_Witness ==
    /\ res.op = "expire_skip"
    /\ OLen(buf) = 4
    /\ res.kind = "some"
    /\ pos = 4

\* an empty region was skipped without a move
C13_WitnessEmpty ==
    /\ res.op = "expire_skip"
    /\ OLen(buf) = 0
    /\ res.kind = "some"
    /\ pos = 0

\* a region of two octets was refused
C13_WitnessShort ==
    /\ res.op = "expire_skip"
    /\ OLen(buf) = 2
    /\ res.kind = "err"

---------------------------------------------------------------------------
(* The two ways to parse a record *)

\* what Option<Record>::parse returns where the header just used started,
\* with the same payload type
OnePass == RecordParse(buf, res.start, res.beh)

\* C14: RecordHeader::parse followed by parse_into_record returns what
\* Option<Record>::parse returns on the same buffer with the same payload
\* type, the record, None or the kind of error, and leaves the cursor at
\* the same position, also when the payload type declines after having
\* read some octets of the payload.
C14_PathsAgree ==
    ( /\ res.op = "parse_into_record"
      /\ res.beh.eat <= res.head.rdlen )
    => /\ res.kind = OnePass.kind
       /\ res.err = OnePass.err
       /\ res.rec = OnePass.val
       /\ pos = OnePass.pos

\* the paths agree when the payload type declines or fails without having
\* read, and when it accepts
C14_AgreeWhenNothingRead ==
    ( /\ res.op = "parse_into_record"
      /\ res.beh.eat = 0 )
    => /\ res.kind = OnePass.kind
       /\ res.err = OnePass.err
       /\ res.rec = OnePass.val
       /\ pos = OnePass.pos

---------------------------------------------------------------------------
(* Base 16: a Decoder fed character by character, decode on whole         *)
(* strings, display, and decode on what display wrote                      *)

\* the characters 0, 9, F, f and g
HexChars == {48, 57, 70, 102, 103}

RECURSIVE Strings(_)
Strings(n) ==
    IF n = 0 THEN { <<>> }
    ELSE Strings(n - 1)
         \cup { Append(t, c) : t \in { x \in Strings(n - 1) : Len(x) = n - 1 },
                               c \in HexChars }

\* the octets displayed
HexOctets == {0, 15, 165, 240, 255}

RECURSIVE OctetSeqs(_)
OctetSeqs(n) ==
    IF n = 0 THEN { <<>> }
    ELSE OctetSeqs(n - 1)
         \cup { Append(t, o) : t \in { x \in OctetSeqs(n - 1) : Len(x) = n - 1 },
                               o \in HexOctets }

\* The target is a small builder or one that takes every string decoded
InitHex ==
    /\ buf = <<>>
    /\ pos = 0
    /\ hdr = NotHeld
    /\ res = Res0
    /\ out = <<>>
    /\ comp = {}
    /\ cap \in {RoomSmall, MaxText}
    /\ recs = <<>>
    /\ ptrs = {}
    /\ dec = DecoderNew
    /\ text = <<>>

HexRes(op, ok, err, octets) ==
    [Res0 EXCEPT !.op = op, !.kind = IF ok THEN "ok" ELSE "err",
                 !.derr = err, !.octets = octets]

Records0 == <<hdr, out, comp, cap, recs, ptrs>>

\* decoder.push(ch)
DoPush(ch) ==
    /\ res.op \in {"init", "push"}
    /\ Len(text) < MaxText
    /\ \E r \in {DecoderPush(dec, ch, cap)} :
           /\ dec' = r.d
           /\ res' = HexRes("push", r.ok, r.err, <<>>)
    /\ text' = Append(text, ch)
    /\ UNCHANGED <<buf, pos>>
    /\ UNCHANGED Records0

\* decoder.finalize(), which consumes the Decoder
DoFinalize ==
    /\ res.op \in {"init", "push"}
    /\ \E r \in {DecoderFinalize(dec)} :
           res' = [HexRes("finalize", r.ok, r.err, r.octets)
                     EXCEPT !.orig = res.kind]
    /\ dec' = NoDecoder
    /\ UNCHANGED <<buf, pos, text>>
    /\ UNCHANGED Records0

\* decode(s)
DoDecode(s) ==
    /\ res.op = "init"
    /\ \E r \in {Decode(s, cap)} :
           res' = HexRes("decode", r.ok, r.err, r.octets)
    /\ text' = s
    /\ UNCHANGED <<buf, pos, dec>>
    /\ UNCHANGED Records0

\* display(octets, &mut string)
DoDisplay(b) ==
    /\ res.op = "init"
    /\ buf' = Oct(b)
    /\ text' = Display(Oct(b))
    /\ res' = HexRes("display", TRUE, NoErr, <<>>)
    /\ UNCHANGED <<pos, dec>>
    /\ UNCHANGED Records0

\* decode(&string), of the string display wrote
DoDecodeDisplayed ==
    /\ res.op = "display"
    /\ \E r \in {Decode(text, cap)} :
           res' = HexRes("redecode", r.ok, r.err, r.octets)
    /\ UNCHANGED <<buf, pos, dec, text>>
    /\ UNCHANGED Records0

NextHex ==
    \/ \E ch \in HexChars : DoPush(ch)
    \/ DoFinalize
    \/ \E s \in Strings(MaxText) : DoDecode(s)
    \/ \E b \in OctetSeqs(MaxOctets) : DoDisplay(b)
    \/ DoDecodeDisplayed

SpecHex == InitHex /\ [][NextHex]_vars

---------------------------------------------------------------------------
(* Claims about Base 16 *)

\* the target takes every octet of the string: a Vec<u8>, as in the tests
TargetTakesAll == Len(text) \div 2 <= cap

\* the string with its lower-case letters a..f in upper case
Upper(s) == [i \in 1..Len(s) |-> IF s[i] \in 97..102 THEN s[i] - 32 ELSE s[i]]

AllHex(s) == \A i \in 1..Len(s) : ToDigit(s[i]) # -1

\* C11: Base 16 round-trips.  display writes two upper-case hex digits for
\* every octet, the upper half first (F0 0F is "F00F"); decode of what
\* display wrote is the octets displayed; decode takes upper- and
\* lower-case digits alike ("F00f" is F0 0F), makes the empty sequence of
\* the empty string, and returns ShortInput for an odd number of hex
\* digits.  The target is one that takes every octet appended.
C11_RoundTrip ==
    /\ res.op = "display" =>
         /\ Len(text) = 2 * OLen(buf)
         /\ \A i \in 1..OLen(buf) :
               /\ text[2 * i - 1] \in (48..57) \cup (65..70)
               /\ text[2 * i] \in (48..57) \cup (65..70)
               /\ ToDigit(text[2 * i - 1]) * 16 + ToDigit(text[2 * i])
                    = At(buf, i)
         /\ buf = Oct(<<240, 15>>) => text = <<70, 48, 48, 70>>
    /\ (res.op = "redecode" /\ TargetTakesAll) =>
         /\ res.kind = "ok"
         /\ res.octets = buf
    /\ (res.op = "decode" /\ TargetTakesAll) =>
         /\ text = <<>> => res.kind = "ok" /\ res.octets = <<>>
         /\ text = <<70, 48, 48, 102>> =>
              res.kind = "ok" /\ res.octets = Oct(<<240, 15>>)
         /\ (AllHex(text) /\ Len(text) % 2 = 1) =>
              res.kind = "err" /\ res.derr = ShortInput
         /\ (AllHex(text) /\ Len(text) % 2 = 0) => res.kind = "ok"
         /\ res.kind = (IF Decode(Upper(text), cap).ok THEN "ok" ELSE "err")
         /\ res.octets = Decode(Upper(text), cap).octets

\* F0 0F was displayed as F00F and decoded back
C11_Witness ==
    /\ res.op = "redecode"
    /\ buf = Oct(<<240, 15>>)
    /\ text = <<70, 48, 48, 70>>
    /\ res.kind = "ok"
    /\ res.octets = buf

\* F00f was decoded
C11_WitnessMixed ==
    /\ res.op = "decode"
    /\ text = <<70, 48, 48, 102>>
    /\ res.octets = Oct(<<240, 15>>)

\* three hex digits were refused
C11_WitnessOdd ==
    /\ res.op = "decode"
    /\ text = <<70, 48, 102>>
    /\ res.derr = ShortInput

\* C12: the Decoder's error state is absorbing.  After a push that returned
\* an error, for an illegal character or a refused append, the next push
\* returns an error whatever the character, and finalize returns an error
\* and no octets; so does every later one.
C12_ErrorIsAbsorbing ==
    [][ (res.op = "push" /\ res.kind = "err")
        => /\ res'.op \in {"push", "finalize"}
           /\ res'.kind = "err"
           /\ res'.octets = <<>> ]_vars

\* g was refused, then F and 0 were pushed and refused, and finalize
\* returned the error of g
C12_Witness ==
    /\ res.op = "finalize"
    /\ text = <<103, 70, 48>>
    /\ res.orig = "err"
    /\ res.kind = "err"
    /\ res.derr = IllegalChar(103)

\* a second octet did not fit the small target and the push after that
\* returned the same error
C12_WitnessFull ==
    /\ res.op = "push"
    /\ cap = RoomSmall
    /\ AllHex(text)
    /\ Len(text) = 2 * RoomSmall + 3
    /\ res.kind = "err"
    /\ res.derr = DecodeShortBuf

====
